---- MODULE Spec2Model ----
(***************************************************************************)
(* Model of the Duration value class of src/src/duration.ts.               *)
(*                                                                         *)
(* A Duration holds `milliseconds: number` and `forever: boolean`.  The    *)
(* `number` type is IEEE 754 binary64, so the arithmetic of the class      *)
(* (`*`, `/`, `+`, `-`, `<`, Math.floor) is modelled bit-exactly: a number *)
(* is a record [cls, neg, man, exp] standing for (-1)^neg * man * 2^exp,   *)
(* with man an arbitrary-precision natural (little-endian digits in base   *)
(* 2^15), and every operation rounds to nearest, ties to even, to 53       *)
(* significant bits, with gradual underflow and overflow to Infinity.      *)
(***************************************************************************)
EXTENDS Integers, Sequences, FiniteSets, TLC

(***************************************************************************)
(* Arbitrary-precision naturals: little-endian digit sequences, no high    *)
(* zero digit, <<>> is zero.                                               *)
(***************************************************************************)
DigitBits == 15

Base == 2^DigitBits

Digit(a, i) == IF i <= Len(a) THEN a[i] ELSE 0

Rest(a) == IF a = <<>> THEN a ELSE Tail(a)

Zeros(n) == [i \in 1..n |-> 0]

RECURSIVE BTrim(_)
BTrim(a) ==
    IF a = <<>> THEN a
    ELSE IF a[Len(a)] = 0 THEN BTrim(SubSeq(a, 1, Len(a) - 1))
    ELSE a

RECURSIVE BAddC(_, _, _)
BAddC(a, b, c) ==
    IF a = <<>> /\ b = <<>>
    THEN (IF c = 0 THEN <<>> ELSE <<c>>)
    ELSE LET s == Digit(a, 1) + Digit(b, 1) + c
         IN  <<s % Base>> \o BAddC(Rest(a), Rest(b), s \div Base)

BAdd(a, b) == BAddC(a, b, 0)

RECURSIVE BSubC(_, _, _)
BSubC(a, b, c) ==
    IF a = <<>> THEN <<>>
    ELSE LET s == a[1] - Digit(b, 1) - c
         IN  <<IF s < 0 THEN s + Base ELSE s>>
                 \o BSubC(Tail(a), Rest(b), IF s < 0 THEN 1 ELSE 0)

\* a - b for a >= b
BSub(a, b) == BTrim(BSubC(a, b, 0))

RECURSIVE BMulC(_, _, _)
BMulC(a, k, c) ==
    IF a = <<>>
    THEN (IF c = 0 THEN <<>> ELSE <<c>>)
    ELSE LET s == a[1] * k + c
         IN  <<s % Base>> \o BMulC(Tail(a), k, s \div Base)

\* a * k for a digit-sized k
BMulSmall(a, k) == BTrim(BMulC(a, k, 0))

BShiftDigits(a, n) == IF a = <<>> THEN a ELSE Zeros(n) \o a

RECURSIVE BMul(_, _)
BMul(a, b) ==
    IF a = <<>> \/ b = <<>> THEN <<>>
    ELSE BAdd(BMulSmall(a, b[1]), BShiftDigits(BMul(a, Tail(b)), 1))

RECURSIVE BDivC(_, _)
BDivC(a, d) ==
    IF a = <<>> THEN [q |-> <<>>, r |-> 0]
    ELSE LET hi  == BDivC(Tail(a), d)
             cur == hi.r * Base + a[1]
         IN  [q |-> <<cur \div d>> \o hi.q, r |-> cur % d]

\* quotient and remainder of a by a digit-sized d > 0
BDivSmall(a, d) == LET x == BDivC(a, d) IN [q |-> BTrim(x.q), r |-> x.r]

RECURSIVE BCmpTop(_, _, _)
BCmpTop(a, b, i) ==
    IF i = 0 THEN 0
    ELSE IF a[i] < b[i] THEN -1
    ELSE IF a[i] > b[i] THEN 1
    ELSE BCmpTop(a, b, i - 1)

\* -1, 0, 1 as a < b, a = b, a > b
BCmp(a, b) ==
    IF Len(a) < Len(b) THEN -1
    ELSE IF Len(a) > Len(b) THEN 1
    ELSE BCmpTop(a, b, Len(a))

BitLenSmall(d) == CHOOSE k \in 1..DigitBits : 2^(k - 1) <= d /\ d < 2^k

BBitLen(a) ==
    IF a = <<>> THEN 0
    ELSE DigitBits * (Len(a) - 1) + BitLenSmall(a[Len(a)])

BShl(a, k) ==
    IF a = <<>> THEN a
    ELSE Zeros(k \div DigitBits) \o BMulSmall(a, 2^(k % DigitBits))

BShr(a, k) ==
    LET d == k \div DigitBits
    IN  IF d >= Len(a) THEN <<>>
        ELSE BDivSmall(SubSeq(a, d + 1, Len(a)), 2^(k % DigitBits)).q

TzSmall(d) == CHOOSE k \in 0..(DigitBits - 1) : d % 2^k = 0 /\ d % 2^(k + 1) # 0

\* number of trailing zero bits of a # 0
BTz(a) ==
    LET i == CHOOSE j \in 1..Len(a) : a[j] # 0 /\ \A h \in 1..(j - 1) : a[h] = 0
    IN  DigitBits * (i - 1) + TzSmall(a[i])

BOdd(a) == a # <<>> /\ a[1] % 2 = 1

BOne == <<1>>

(***************************************************************************)
(* IEEE 754 binary64, the `number` type.                                   *)
(***************************************************************************)
Precision == 53

\* finite numbers are below 2^ExpLimit
ExpLimit == 1024

\* the smallest positive number is 2^MinExp
MinExp == -1074

NaN == [cls |-> "nan", neg |-> FALSE, man |-> <<>>, exp |-> 0]

Inf(neg) == [cls |-> "inf", neg |-> neg, man |-> <<>>, exp |-> 0]

POSITIVE_INFINITY == Inf(FALSE)

Zero == [cls |-> "fin", neg |-> FALSE, man |-> <<>>, exp |-> 0]

\* (-1)^neg * m * 2^e, for a value known to be representable
Canon(neg, m, e) ==
    IF m = <<>> THEN Zero
    ELSE LET z == BTz(m)
         IN  [cls |-> "fin", neg |-> neg, man |-> BShr(m, z), exp |-> e + z]

\* The number nearest to (-1)^neg * (m * 2^e + s), where the sticky flag
\* `sticky` says that 0 < s < 2^e (s = 0 otherwise): round to nearest, ties
\* to even.  A caller that sets sticky passes m with more than
\* Precision + 1 bits.
Round(neg, m, e, sticky) ==
    IF m = <<>> THEN Zero
    ELSE
      LET len == BBitLen(m)
          top == e + len - 1
          t   == top - (Precision - 1)
          qe  == IF t < MinExp THEN MinExp ELSE t
      IN  IF top >= ExpLimit THEN Inf(neg)
          ELSE IF qe <= e THEN Canon(neg, m, e)
          ELSE
            LET sh   == qe - e
                keep == BShr(m, sh)
                rem  == BSub(m, BShl(keep, sh))
                half == BShl(BOne, sh - 1)
                c    == BCmp(rem, half)
                up   == \/ c = 1
                        \/ c = 0 /\ sticky
                        \/ c = 0 /\ ~sticky /\ BOdd(keep)
                res  == IF up THEN BAdd(keep, BOne) ELSE keep
            IN  IF BBitLen(res) + qe > ExpLimit THEN Inf(neg)
                ELSE Canon(neg, res, qe)

FromInt(n) == IF n < 0 THEN Canon(TRUE, <<-n>>, 0) ELSE Canon(FALSE, BTrim(<<n>>), 0)

Pow2(k) == Canon(FALSE, BOne, k)

\* Number.MAX_VALUE = (2^53 - 1) * 2^971
MAX_VALUE ==
    Canon(FALSE, BSub(BShl(BOne, Precision), BOne), ExpLimit - Precision)

IsNaN(a) == a.cls = "nan"

IsFinite(a) == a.cls = "fin"

IsZero(a) == a.cls = "fin" /\ a.man = <<>>

TopExp(a) == a.exp + BBitLen(a.man) - 1

\* |a| < |b| for non-NaN a, b
MagLt(a, b) ==
    IF a.cls = "inf" THEN FALSE
    ELSE IF b.cls = "inf" THEN TRUE
    ELSE IF IsZero(b) THEN FALSE
    ELSE IF IsZero(a) THEN TRUE
    ELSE IF TopExp(a) # TopExp(b) THEN TopExp(a) < TopExp(b)
    ELSE IF a.exp >= b.exp
         THEN BCmp(BShl(a.man, a.exp - b.exp), b.man) = -1
         ELSE BCmp(a.man, BShl(b.man, b.exp - a.exp)) = -1

\* a < b
FLt(a, b) ==
    IF IsNaN(a) \/ IsNaN(b) THEN FALSE
    ELSE IF IsZero(a) /\ IsZero(b) THEN FALSE
    ELSE IF a.neg # b.neg THEN a.neg
    ELSE IF a.neg THEN MagLt(b, a)
    ELSE MagLt(a, b)

FGe(a, b) == ~IsNaN(a) /\ ~IsNaN(b) /\ ~FLt(a, b)

\* operands further apart than this many binary orders of magnitude: the
\* smaller is below a quarter of the last place of the larger
FarApart == Precision + 7

\* a * b
FMul(a, b) ==
    IF IsNaN(a) \/ IsNaN(b) THEN NaN
    ELSE IF a.cls = "inf" \/ b.cls = "inf"
         THEN (IF IsZero(a) \/ IsZero(b) THEN NaN ELSE Inf(a.neg # b.neg))
    ELSE Round(a.neg # b.neg, BMul(a.man, b.man), a.exp + b.exp, FALSE)

\* a + b for a, b not negative
FAdd(a, b) ==
    IF IsNaN(a) \/ IsNaN(b) THEN NaN
    ELSE IF a.cls = "inf" \/ b.cls = "inf" THEN POSITIVE_INFINITY
    ELSE IF IsZero(a) THEN b
    ELSE IF IsZero(b) THEN a
    ELSE IF TopExp(a) - TopExp(b) > FarApart THEN a
    ELSE IF TopExp(b) - TopExp(a) > FarApart THEN b
    ELSE LET e == IF a.exp < b.exp THEN a.exp ELSE b.exp
         IN  Round(FALSE,
                   BAdd(BShl(a.man, a.exp - e), BShl(b.man, b.exp - e)),
                   e, FALSE)

\* a - b for a >= b >= 0
FSub(a, b) ==
    IF IsNaN(a) \/ IsNaN(b) THEN NaN
    ELSE IF a.cls = "inf" THEN (IF b.cls = "inf" THEN NaN ELSE POSITIVE_INFINITY)
    ELSE IF IsZero(b) THEN a
    ELSE IF TopExp(a) - TopExp(b) > FarApart THEN a
    ELSE LET e == IF a.exp < b.exp THEN a.exp ELSE b.exp
         IN  Round(FALSE,
                   BSub(BShl(a.man, a.exp - e), BShl(b.man, b.exp - e)),
                   e, FALSE)

\* guard bits of a quotient
GuardBits == 5 * DigitBits

\* a / d for a not negative and d a positive integer below Base
FDivInt(a, d) ==
    IF IsNaN(a) THEN NaN
    ELSE IF a.cls = "inf" THEN a
    ELSE IF IsZero(a) THEN Zero
    ELSE LET x == BDivSmall(BShl(a.man, GuardBits), d)
         IN  Round(a.neg, x.q, a.exp - GuardBits, x.r # 0)

\* Math.floor(a) for a not negative
Floor(a) ==
    IF a.cls # "fin" THEN a
    ELSE IF a.exp >= 0 THEN a
    ELSE IF -a.exp >= BBitLen(a.man) THEN Zero
    ELSE Canon(FALSE, BShr(a.man, -a.exp), 0)

(***************************************************************************)
(* The checks of @awkewainze/checkverify, as duration.ts calls them.  Each *)
(* is the set of possible results (TRUE: the check passes, FALSE: it       *)
(* throws).  The library's source is not part of the repository; what it   *)
(* does with NaN, which is neither negative nor non-negative, is left      *)
(* open, so both results are possible there.                               *)
(***************************************************************************)
verify(cond) == {cond}

verifyNotNegative(x) == IF IsNaN(x) THEN {TRUE, FALSE} ELSE {~FLt(x, Zero)}

verifyPositive(x) == IF IsNaN(x) THEN {TRUE, FALSE} ELSE {FLt(Zero, x)}

(***************************************************************************)
(* class Duration.  A call's result is <<>> when the call throws and       *)
(* <<v>> when it returns v; a factory is the set of its possible results.  *)
(***************************************************************************)
Threw == <<>>

\* private constructor(milliseconds, forever = false)
Duration(milliseconds, forever) ==
    [milliseconds |-> IF forever THEN POSITIVE_INFINITY ELSE milliseconds,
     forever      |-> forever]

toMilliseconds(this) ==
    IF FALSE \in verify(~this.forever) THEN Threw
    ELSE <<this.milliseconds>>

toSeconds(this) ==
    IF FALSE \in verify(~this.forever) THEN Threw
    ELSE <<FDivInt(this.milliseconds, 1000)>>

\* toMinutes dividing the milliseconds, not the seconds, by 60
toMinutesFromMilliseconds(this) ==
    IF FALSE \in verify(~this.forever) THEN Threw
    ELSE <<FDivInt(this.milliseconds, 60)>>

toMinutes(this) ==
    IF FALSE \in verify(~this.forever) THEN Threw
    ELSE LET s == toSeconds(this)
         IN  IF s = Threw THEN Threw ELSE <<FDivInt(s[1], 60)>>

toHours(this) ==
    IF FALSE \in verify(~this.forever) THEN Threw
    ELSE LET m == toMinutes(this)
         IN  IF m = Threw THEN Threw ELSE <<FDivInt(m[1], 60)>>

\* toDays without its check, dividing the stored magnitude
toDaysUnchecked(this) ==
    <<FDivInt(FDivInt(FDivInt(FDivInt(this.milliseconds, 1000), 60), 60), 24)>>

toDays(this) ==
    IF FALSE \in verify(~this.forever) THEN Threw
    ELSE LET h == toHours(this)
         IN  IF h = Threw THEN Threw ELSE <<FDivInt(h[1], 24)>>

isForever(this) == <<this.forever>>

add(this, duration) ==
    LET t == toMilliseconds(duration)
    IN  IF t = Threw THEN Threw
        ELSE <<Duration(FAdd(this.milliseconds, t[1]),
                        this.forever \/ duration.forever)>>

\* multiply checking its factor with verifyNotNegative
multiplyNotNegative(this, times) ==
    {IF ok THEN <<Duration(FMul(this.milliseconds, times), this.forever)>>
           ELSE Threw : ok \in verifyNotNegative(times)}

multiply(this, times) ==
    {IF ok THEN <<Duration(FMul(this.milliseconds, times), this.forever)>>
           ELSE Threw : ok \in verifyPositive(times)}

\* fromMilliseconds storing whole milliseconds only
fromMillisecondsFloor(milliseconds) ==
    {IF ok THEN <<Duration(Floor(milliseconds), FALSE)>> ELSE Threw :
        ok \in verifyNotNegative(milliseconds)}

\* fromMilliseconds without its check
fromMillisecondsUnchecked(milliseconds) ==
    {<<Duration(milliseconds, FALSE)>>}

fromMilliseconds(milliseconds) ==
    {IF ok THEN <<Duration(milliseconds, FALSE)>> ELSE Threw :
        ok \in verifyNotNegative(milliseconds)}

fromSeconds(seconds) ==
    {IF ok THEN <<Duration(FMul(seconds, FromInt(1000)), FALSE)>> ELSE Threw :
        ok \in verifyNotNegative(seconds)}

fromMinutes(minutes) ==
    UNION {IF ok THEN fromSeconds(FMul(minutes, FromInt(60))) ELSE {Threw} :
        ok \in verifyNotNegative(minutes)}

fromHours(hours) ==
    UNION {IF ok THEN fromMinutes(FMul(hours, FromInt(60))) ELSE {Threw} :
        ok \in verifyNotNegative(hours)}

fromDays(days) ==
    UNION {IF ok THEN fromHours(FMul(days, FromInt(24))) ELSE {Threw} :
        ok \in verifyNotNegative(days)}

forever == Duration(MAX_VALUE, TRUE)

\* Math.floor(Math.random() * max), for the value random of Math.random()
randInt(max, random) == Floor(FMul(random, max))

\* between comparing left <= right where the code compares left < right
betweenLessOrEqual(a, b, random) ==
    IF isForever(a)[1] /\ isForever(b)[1]
    THEN {[kind |-> "forever", d |-> <<forever>>, draws |-> 0]}
    ELSE
      LET left  == IF isForever(a)[1] THEN MAX_VALUE ELSE toMilliseconds(a)[1]
          right == IF isForever(b)[1] THEN MAX_VALUE ELSE toMilliseconds(b)[1]
      IN  IF FLt(left, right) \/ left = right
          THEN {[kind |-> "drawn", d |-> o, draws |-> 1] :
                  o \in fromMilliseconds(
                          FAdd(randInt(FSub(right, left), random), left))}
          ELSE IF FLt(right, left)
          THEN {[kind |-> "drawn", d |-> o, draws |-> 1] :
                  o \in fromMilliseconds(
                          FAdd(randInt(FSub(left, right), random), right))}
          ELSE {[kind |-> "a", d |-> <<a>>, draws |-> 0]}

\* The possible results of between(a, b) when Math.random() would return
\* random: kind "forever" (a fresh forever()), "drawn" (a Duration made by
\* fromMilliseconds, d, or its throw), "a" (the argument a itself).
between(a, b, random) ==
    IF isForever(a)[1] /\ isForever(b)[1]
    THEN {[kind |-> "forever", d |-> <<forever>>, draws |-> 0]}
    ELSE
      LET left  == IF isForever(a)[1] THEN MAX_VALUE ELSE toMilliseconds(a)[1]
          right == IF isForever(b)[1] THEN MAX_VALUE ELSE toMilliseconds(b)[1]
      IN  IF FLt(left, right)
          THEN {[kind |-> "drawn", d |-> o, draws |-> 1] :
                  o \in fromMilliseconds(
                          FAdd(randInt(FSub(right, left), random), left))}
          ELSE IF FLt(right, left)
          THEN {[kind |-> "drawn", d |-> o, draws |-> 1] :
                  o \in fromMilliseconds(
                          FAdd(randInt(FSub(left, right), random), right))}
          ELSE {[kind |-> "a", d |-> <<a>>, draws |-> 0]}

(***************************************************************************)
(* The program's state: the Durations created so far (heap; a Duration's   *)
(* identity is its index) and the record of the last call (last): the      *)
(* operation, its receiver or first argument a, its second argument b (heap *)
(* indices, 0 when absent), its number argument x, whether it threw, the    *)
(* Duration it returned (ref, a heap index, 0 when none), the number or    *)
(* boolean it returned (val) and how many times it called Math.random().   *)
(***************************************************************************)
VARIABLES heap, last

vars == <<heap, last>>

\* the Durations a run may hold at once
MaxHeap == 2

Half == Pow2(-1)

\* the largest value below 1: 1 - 2^-53
AlmostOne == Canon(FALSE, BSub(BShl(BOne, Precision), BOne), -Precision)

\* the number literal 0.01
Hundredth == FDivInt(FromInt(1), 100)

\* 0x1.2e87d0511baebp-31, about 5.503e-10
Irregular == Canon(FALSE, <<15083, 2595, 8692, 151>>, -83)

\* 5e-324, Number.MIN_VALUE
MIN_VALUE == Pow2(MinExp)

\* inputs of the factories in Spec
MsInputs == {FromInt(-1), Zero, FromInt(10), POSITIVE_INFINITY}

UnitInputs == {FromInt(1)}

\* factors given to multiply
Times == {FromInt(-1), Zero, FromInt(3)}

\* values Math.random() returns: any number in [0, 1)
Randoms == {Zero, Half, AlmostOne}

\* inputs of the unit factories in SpecConv
ConvInputs ==
    {Zero, FromInt(1), FromInt(3), FromInt(10), Half, Hundredth, Irregular,
     MIN_VALUE, Pow2(Precision), POSITIVE_INFINITY,
     FromInt(-1), Canon(TRUE, BOne, MinExp), Inf(TRUE)}

\* inputs of fromMilliseconds in SpecConv
MsConvInputs == ConvInputs \cup {Pow2(ExpLimit - 4), MAX_VALUE}

NoCall ==
    [op |-> "none", a |-> 0, b |-> 0, x |-> Zero, threw |-> FALSE, ref |-> 0,
     val |-> <<>>, draws |-> 0]

Init == heap = <<>> /\ last = NoCall

\* a factory call op(x) with the possible results outs
Create(op, x, outs) ==
    \E o \in outs :
        /\ o # Threw => Len(heap) < MaxHeap
        /\ heap' = IF o = Threw THEN heap ELSE Append(heap, o[1])
        /\ last' = [op |-> op, a |-> 0, b |-> 0, x |-> x, threw |-> o = Threw,
                    ref |-> IF o = Threw THEN 0 ELSE Len(heap) + 1,
                    val |-> <<>>, draws |-> 0]

CallFromMilliseconds(x) == Create("fromMilliseconds", x, fromMilliseconds(x))

CallFromSeconds(x) == Create("fromSeconds", x, fromSeconds(x))

CallFromMinutes(x) == Create("fromMinutes", x, fromMinutes(x))

CallFromHours(x) == Create("fromHours", x, fromHours(x))

CallFromDays(x) == Create("fromDays", x, fromDays(x))

CallForever == Create("forever", Zero, {<<forever>>})

\* an accessor call heap[i].op() with the result out
Access(op, i, out) ==
    /\ heap' = heap
    /\ last' = [op |-> op, a |-> i, b |-> 0, x |-> Zero, threw |-> out = Threw,
                ref |-> 0, val |-> out, draws |-> 0]

CallToMilliseconds(i) == Access("toMilliseconds", i, toMilliseconds(heap[i]))

CallToSeconds(i) == Access("toSeconds", i, toSeconds(heap[i]))

CallToMinutes(i) == Access("toMinutes", i, toMinutes(heap[i]))

CallToHours(i) == Access("toHours", i, toHours(heap[i]))

CallToDays(i) == Access("toDays", i, toDays(heap[i]))

CallIsForever(i) == Access("isForever", i, isForever(heap[i]))

\* add storing the sum in its receiver
CallAddInPlace(i, j) ==
    LET o == add(heap[i], heap[j])
    IN  /\ heap' = IF o = Threw THEN heap ELSE [heap EXCEPT ![i] = o[1]]
        /\ last' = [op |-> "add", a |-> i, b |-> j, x |-> Zero,
                    threw |-> o = Threw,
                    ref |-> IF o = Threw THEN 0 ELSE i,
                    val |-> <<>>, draws |-> 0]

\* heap[i].add(heap[j])
CallAdd(i, j) ==
    LET o == add(heap[i], heap[j])
    IN  /\ o # Threw => Len(heap) < MaxHeap
        /\ heap' = IF o = Threw THEN heap ELSE Append(heap, o[1])
        /\ last' = [op |-> "add", a |-> i, b |-> j, x |-> Zero,
                    threw |-> o = Threw,
                    ref |-> IF o = Threw THEN 0 ELSE Len(heap) + 1,
                    val |-> <<>>, draws |-> 0]

\* heap[i].multiply(times)
CallMultiply(i, times) ==
    \E o \in multiply(heap[i], times) :
        /\ o # Threw => Len(heap) < MaxHeap
        /\ heap' = IF o = Threw THEN heap ELSE Append(heap, o[1])
        /\ last' = [op |-> "multiply", a |-> i, b |-> 0, x |-> times,
                    threw |-> o = Threw,
                    ref |-> IF o = Threw THEN 0 ELSE Len(heap) + 1,
                    val |-> <<>>, draws |-> 0]

\* Duration.between(heap[i], heap[j]), Math.random() returning random
CallBetween(i, j, random) ==
    \E o \in between(heap[i], heap[j], random) :
        LET made == o.kind # "a" /\ o.d # Threw
        IN  /\ made => Len(heap) < MaxHeap
            /\ heap' = IF made THEN Append(heap, o.d[1]) ELSE heap
            /\ last' = [op |-> "between", a |-> i, b |-> j, x |-> Zero,
                        threw |-> o.d = Threw,
                        ref |-> IF o.kind = "a" THEN i
                                ELSE IF made THEN Len(heap) + 1 ELSE 0,
                        val |-> <<>>, draws |-> o.draws]

Objects == 1..Len(heap)

Next ==
    \/ \E x \in MsInputs : CallFromMilliseconds(x)
    \/ \E x \in UnitInputs : CallFromSeconds(x)
    \/ \E x \in UnitInputs : CallFromMinutes(x)
    \/ \E x \in UnitInputs : CallFromHours(x)
    \/ \E x \in UnitInputs : CallFromDays(x)
    \/ CallForever
    \/ \E i \in Objects : CallToMilliseconds(i)
    \/ \E i \in Objects : CallToSeconds(i)
    \/ \E i \in Objects : CallToMinutes(i)
    \/ \E i \in Objects : CallToHours(i)
    \/ \E i \in Objects : CallToDays(i)
    \/ \E i \in Objects : CallIsForever(i)
    \/ \E i, j \in Objects : CallAdd(i, j)
    \/ \E i \in Objects, t \in Times : CallMultiply(i, t)
    \/ \E i, j \in Objects, r \in Randoms : CallBetween(i, j, r)

Spec == Init /\ [][Next]_vars

\* The unit conversions alone: one factory call on one input, then the
\* accessors of the Duration it made.
NextConv ==
    \/ \E x \in MsConvInputs : heap = <<>> /\ CallFromMilliseconds(x)
    \/ \E x \in ConvInputs : heap = <<>> /\ CallFromSeconds(x)
    \/ \E x \in ConvInputs : heap = <<>> /\ CallFromMinutes(x)
    \/ \E x \in ConvInputs : heap = <<>> /\ CallFromHours(x)
    \/ \E x \in ConvInputs : heap = <<>> /\ CallFromDays(x)
    \/ \E i \in Objects : CallToMilliseconds(i)
    \/ \E i \in Objects : CallToSeconds(i)
    \/ \E i \in Objects : CallToMinutes(i)
    \/ \E i \in Objects : CallToHours(i)
    \/ \E i \in Objects : CallToDays(i)
    \/ \E i \in Objects : CallIsForever(i)

SpecConv == Init /\ [][NextConv]_vars
(***************************************************************************)
(* Properties.                                                             *)
(***************************************************************************)
UnitFactories == {"fromSeconds", "fromMinutes", "fromHours", "fromDays"}

NumberFactories == {"fromMilliseconds"} \cup UnitFactories

Accessors == {"toMilliseconds", "toSeconds", "toMinutes", "toHours", "toDays"}

\* the receiver (or first argument), the second argument and the returned
\* Duration of the last call
Recv == heap[last.a]

Arg == heap[last.b]

Result == heap[last.ref]

NotNegative(x) == FGe(x, Zero)

\* the magnitude between compares: a forever operand counts as MAX_VALUE
Magnitude(d) == IF d.forever THEN MAX_VALUE ELSE d.milliseconds

\* C1: every a.add(b) succeeds and returns a Duration whose forever flag is
\* the OR of the operands' flags and, when both are finite, whose magnitude
\* is the sum of the two magnitudes.
C1_AddAlwaysSucceeds ==
    last.op = "add" =>
        /\ ~last.threw
        /\ Result.forever = (Recv.forever \/ Arg.forever)
        /\ (~Recv.forever /\ ~Arg.forever =>
              Result.milliseconds = FAdd(Recv.milliseconds, Arg.milliseconds))

\* C2: for every non-negative x, fromMilliseconds(x) succeeds and
\* fromMilliseconds(x).toMilliseconds() returns exactly x.
C2_MillisecondsRoundTrip ==
    last.op = "fromMilliseconds" /\ NotNegative(last.x) =>
        /\ ~last.threw
        /\ toMilliseconds(Result) = <<last.x>>

C2_Witness ==
    /\ last.op = "fromMilliseconds"
    /\ last.x = FromInt(10)
    /\ ~last.threw
    /\ toMilliseconds(Result) = <<FromInt(10)>>

\* what C3 states of the Duration d made by the factory op from x
UnitChain(op, x, d) ==
    /\ op = "fromSeconds" =>
          /\ toMilliseconds(d) = <<FMul(x, FromInt(1000))>>
          /\ toSeconds(d) = <<x>>
    /\ op = "fromMinutes" => toSeconds(d) = <<FMul(x, FromInt(60))>>
    /\ op = "fromHours" => toMinutes(d) = <<FMul(x, FromInt(60))>>
    /\ op = "fromDays" => toHours(d) = <<FMul(x, FromInt(24))>>

\* C3 as stated: for every non-negative input the unit chain is consistent:
\* fromSeconds(x).toMilliseconds() == x*1000, fromSeconds(x).toSeconds() == x,
\* fromMinutes(m).toSeconds() == m*60, fromHours(h).toMinutes() == h*60,
\* fromDays(d).toHours() == d*24.
C3_UnitChainEveryInput ==
    last.op \in UnitFactories /\ NotNegative(last.x) =>
        /\ ~last.threw
        /\ UnitChain(last.op, last.x, Result)

\* milliseconds per unit, as naturals
MsPerUnit(op) ==
    LET sec == <<1000>>
        min == BMulSmall(sec, 60)
        hr  == BMulSmall(min, 60)
    IN  CASE op = "fromSeconds" -> sec
          [] op = "fromMinutes" -> min
          [] op = "fromHours"   -> hr
          [] op = "fromDays"    -> BMulSmall(hr, 24)

\* m * 2^e is a finite number, exactly
ExactlyRepresentable(m, e) ==
    LET c == Canon(FALSE, m, e)
    IN  /\ BBitLen(c.man) <= Precision
        /\ c.exp >= MinExp
        /\ TopExp(c) < ExpLimit

\* the input's value in milliseconds is a number, exactly
ExactInMs(op, x) ==
    /\ IsFinite(x)
    /\ ExactlyRepresentable(BMul(x.man, MsPerUnit(op)), x.exp)

\* C3 as amended: for every non-negative input whose value in milliseconds
\* (seconds x 1000, minutes x 60000, hours x 3600000, days x 86400000) is
\* exactly representable as a number, the stored magnitude is exactly that
\* value and the unit chain is consistent.
C3_UnitChainExactInputs ==
    last.op \in UnitFactories /\ NotNegative(last.x)
                              /\ ExactInMs(last.op, last.x) =>
        /\ ~last.threw
        /\ Result.milliseconds =
              Canon(FALSE, BMul(last.x.man, MsPerUnit(last.op)), last.x.exp)
        /\ UnitChain(last.op, last.x, Result)

C3_Witness ==
    /\ last.op = "fromDays"
    /\ last.x = Half
    /\ ExactInMs(last.op, last.x)
    /\ ~last.threw
    /\ toHours(Result) = <<FromInt(12)>>

\* C4: each number factory fails, producing no Duration, when its input is
\* negative, and succeeds for every non-negative input, 0 included.  (Under
\* SpecConv a factory is called on the empty heap.)
C4_FactoriesRejectNegative ==
    last.op \in NumberFactories =>
        /\ FLt(last.x, Zero) => last.threw /\ last.ref = 0 /\ heap = <<>>
        /\ NotNegative(last.x) =>
              ~last.threw /\ last.ref = 1 /\ Len(heap) = 1

C4_Witness ==
    \/ last.op = "fromHours" /\ last.x = FromInt(-1) /\ last.threw
                             /\ heap = <<>>
    \/ last.op = "fromDays" /\ last.x = Zero /\ ~last.threw
                            /\ Result.milliseconds = Zero

\* C5: for every Duration whose forever flag is set, isForever() returns
\* true without failing and each of the five to* accessors fails; for every
\* Duration whose flag is not set, all five accessors succeed.
C5_ForeverAccessors ==
    /\ \A i \in Objects :
          LET d == heap[i]
              results == {toMilliseconds(d), toSeconds(d), toMinutes(d),
                          toHours(d), toDays(d)}
          IN  /\ isForever(d) = <<d.forever>>
              /\ d.forever => results = {Threw}
              /\ ~d.forever => Threw \notin results
    /\ last.op \in Accessors => (last.threw <=> Recv.forever)
    /\ last.op = "isForever" => ~last.threw /\ last.val = <<Recv.forever>>

C5_Witness ==
    /\ Len(heap) = 2
    /\ ~heap[1].forever
    /\ heap[2].forever
    /\ last.op = "toDays"
    /\ last.a = 2
    /\ last.threw

\* C6: d.multiply(factor) fails when factor is not strictly positive, and for
\* every strictly positive factor returns a Duration whose magnitude is d's
\* magnitude times factor and whose forever flag is d's.
C6_Multiply ==
    last.op = "multiply" =>
        /\ ~FLt(Zero, last.x) => last.threw /\ last.ref = 0
        /\ FLt(Zero, last.x) =>
              /\ ~last.threw
              /\ Result.milliseconds = FMul(Recv.milliseconds, last.x)
              /\ Result.forever = Recv.forever

C6_Witness ==
    /\ last.op = "multiply"
    /\ last.x = FromInt(3)
    /\ Recv.milliseconds = FromInt(10)
    /\ ~last.threw
    /\ Result.milliseconds = FromInt(30)

\* C7: for any two Durations a and b that are not both forever and whose
\* magnitudes differ (a forever operand counting as MAX_VALUE), every
\* outcome of between(a, b) is a non-forever Duration whose milliseconds
\* value v satisfies low <= v < high.
C7_BetweenInRange ==
    last.op = "between" /\ ~(Recv.forever /\ Arg.forever)
                        /\ Magnitude(Recv) # Magnitude(Arg) =>
        LET l    == Magnitude(Recv)
            r    == Magnitude(Arg)
            low  == IF FLt(l, r) THEN l ELSE r
            high == IF FLt(l, r) THEN r ELSE l
        IN  /\ ~last.threw
            /\ ~Result.forever
            /\ FGe(Result.milliseconds, low)
            /\ FLt(Result.milliseconds, high)

\* C8: between(a, b) with both a and b forever returns a Duration with
\* isForever() == true, and between(a, b) with a and b finite and of equal
\* magnitude returns the operand a itself, in both cases with no random draw.
C8_BetweenDegenerate ==
    last.op = "between" =>
        /\ Recv.forever /\ Arg.forever =>
              ~last.threw /\ isForever(Result) = <<TRUE>> /\ last.draws = 0
        /\ (/\ ~Recv.forever /\ ~Arg.forever
            /\ IsFinite(Recv.milliseconds)
            /\ Recv.milliseconds = Arg.milliseconds) =>
              ~last.threw /\ last.ref = last.a /\ last.draws = 0

C8_Witness ==
    /\ last.op = "between"
    /\ last.a # last.b
    /\ ~Recv.forever /\ ~Arg.forever
    /\ Recv.milliseconds = FromInt(10)
    /\ Arg.milliseconds = FromInt(10)
    /\ last.ref = last.a

\* C9: every Duration in existence satisfies the data-model invariant: if its
\* forever flag is false its magnitude is finite and non-negative, and if
\* its forever flag is true its magnitude is the infinite sentinel, which no
\* accessor returns.
C9_DataInvariant ==
    \A i \in Objects :
        LET d == heap[i]
        IN  /\ ~d.forever =>
                  IsFinite(d.milliseconds) /\ NotNegative(d.milliseconds)
            /\ d.forever =>
                  /\ d.milliseconds = POSITIVE_INFINITY
                  /\ toMilliseconds(d) = Threw

\* C10: no operation, whether it succeeds or fails, changes the magnitude or
\* forever flag of an existing Duration; add and multiply deliver their
\* result as a newly created Duration distinct from their operands; a
\* failing operation and an accessor create no Duration.
C10_Immutable ==
    [][/\ Len(heap') >= Len(heap)
       /\ \A i \in Objects : heap'[i] = heap[i]
       /\ last'.threw => heap' = heap
       /\ last'.op \in Accessors \cup {"isForever"} => heap' = heap
       /\ last'.op \in {"add", "multiply"} /\ ~last'.threw =>
             /\ Len(heap') = Len(heap) + 1
             /\ last'.ref = Len(heap')
             /\ last'.ref \notin {last'.a, last'.b}]_vars

C10_Witness ==
    /\ last.op = "add"
    /\ ~last.threw
    /\ last.a = 1
    /\ last.b = 1
    /\ last.ref = 2
    /\ heap[1].milliseconds = FromInt(10)
    /\ heap[2].milliseconds = FromInt(20)
====
